---- MODULE Spec2Model ----
(***************************************************************************)
(* Model of htmltopdf.py: main() parses the command line and calls         *)
(* convert_html_to_pdf(), which reads the HTML file, parses it, rewrites   *)
(* relative <img src> values, collects the linked stylesheets, composes    *)
(* the @page block and hands markup and stylesheets to the renderer.       *)
(*                                                                         *)
(* Python strings are sequences of one-character strings, so startswith,   *)
(* os.path.join, dirname, abspath and lower are computed, not assumed.     *)
(* A dict of attributes is a record whose DOMAIN is the set of attributes  *)
(* that are present.  A CSS object is the record of the @page declarations *)
(* its text holds.                                                         *)
(***************************************************************************)
EXTENDS Integers, Sequences, FiniteSets, TLC

VARIABLES
    pc,           \* position in main / convert_html_to_pdf
    args,         \* argparse namespace
    base_dir,     \* absolute directory of the input file (line 53)
    disk_html,    \* markup stored in the input file
    fs,           \* stylesheet files on disk: path -> file state
    html_content, \* result of f.read() at line 57
    soup,         \* parsed document, mutated in place
    parsed,       \* the document as returned by the parser (history)
    stylesheets,  \* the list built at lines 70-84
    opened,       \* stylesheet paths passed to open() at line 29
    renders,      \* calls of write_pdf: markup, stylesheets, output path
    written,      \* output files the renderer has written
    exc,          \* the exception raised, as <<e>>; <<>> when none
    out           \* lines printed

vars == <<pc, args, base_dir, disk_html, fs, html_content, soup, parsed, stylesheets,
          opened, renders, written, exc, out>>

----------------------------------------------------------------------------
(* Bounds of the model *)

MaxElems == 2

----------------------------------------------------------------------------
(* String helpers *)

StartsWith(s, p) == Len(s) >= Len(p) /\ SubSeq(s, 1, Len(p)) = p

StartsWithAny(s, ps) == \E p \in ps : StartsWith(s, p)

HTTP == <<"h","t","t","p",":","/","/">>
HTTPS == <<"h","t","t","p","s",":","/","/">>
FILE == <<"f","i","l","e",":","/","/">>
SLASH == <<"/">>
STYLESHEET == <<"s","t","y","l","e","s","h","e","e","t">>

UpperChars == <<"S","T","Y","L","E","H","A">>
LowerChars == <<"s","t","y","l","e","h","a">>

LowerChar(c) ==
    IF \E i \in 1..Len(UpperChars) : UpperChars[i] = c
    THEN LowerChars[CHOOSE i \in 1..Len(UpperChars) : UpperChars[i] = c]
    ELSE c

Lower(s) == [i \in 1..Len(s) |-> LowerChar(s[i])]

\* str.split(sep) for a one-character separator: the pieces between
\* consecutive separators, always at least one piece
Split(s, sep) ==
    LET pos == {k \in 1..Len(s) : s[k] = sep}
        n   == Cardinality(pos)
        cut(j) == IF j = 0 THEN 0
                  ELSE IF j = n + 1 THEN Len(s) + 1
                  ELSE CHOOSE k \in pos : Cardinality({m \in pos : m < k}) = j - 1
    IN  [j \in 1..(n+1) |-> SubSeq(s, cut(j-1) + 1, cut(j) - 1)]

\* sep.join(parts)
JoinWith(parts, sep) ==
    LET joined[k \in 0..Len(parts)] ==
            IF k = 0 THEN <<>>
            ELSE IF k = 1 THEN parts[1]
            ELSE joined[k-1] \o <<sep>> \o parts[k]
    IN  joined[Len(parts)]

SelectNonEmpty(parts) == SelectSeq(parts, LAMBDA t : t # <<>>)

----------------------------------------------------------------------------
(* posixpath *)

IsAbs(p) == StartsWith(p, SLASH)

PathJoin(a, b) ==
    IF IsAbs(b) THEN b
    ELSE IF a = <<>> \/ a[Len(a)] = "/" THEN a \o b
    ELSE a \o SLASH \o b

RECURSIVE RStripSlash(_)
RStripSlash(s) ==
    IF s # <<>> /\ s[Len(s)] = "/" THEN RStripSlash(SubSeq(s, 1, Len(s)-1)) ELSE s

Dirname(p) ==
    LET idx  == {k \in 1..Len(p) : p[k] = "/"}
        i    == IF idx = {} THEN 0 ELSE CHOOSE k \in idx : \A j \in idx : j <= k
        head == SubSeq(p, 1, i)
    IN  IF head # <<>> /\ (\E k \in 1..Len(head) : head[k] # "/")
        THEN RStripSlash(head)
        ELSE head

\* the loop of normpath over comps: new_comps after each component
NormComps(comps, initial) ==
    LET dd == <<".", ".">>
        new_comps[k \in 0..Len(comps)] ==
            IF k = 0 THEN <<>>
            ELSE LET new  == new_comps[k-1]
                     comp == comps[k]
                 IN  IF comp = <<>> \/ comp = <<".">> THEN new
                     ELSE IF comp # dd \/ (initial = 0 /\ new = <<>>)
                             \/ (new # <<>> /\ new[Len(new)] = dd)
                     THEN Append(new, comp)
                     ELSE IF new # <<>> THEN SubSeq(new, 1, Len(new)-1)
                     ELSE new
    IN  new_comps[Len(comps)]

Normpath(path) ==
    IF path = <<>> THEN <<".">>
    ELSE LET initial == IF ~StartsWith(path, SLASH) THEN 0
                        ELSE IF StartsWith(path, <<"/","/">>)
                                /\ ~StartsWith(path, <<"/","/","/">>) THEN 2
                        ELSE 1
             joined  == JoinWith(NormComps(Split(path, "/"), initial), "/")
             res     == [i \in 1..initial |-> "/"] \o joined
         IN  IF res = <<>> THEN <<".">> ELSE res

Cwd == <<"/","w">>

Abspath(p) == Normpath(IF IsAbs(p) THEN p ELSE PathJoin(Cwd, p))

----------------------------------------------------------------------------
(* Documents.  On disk an attribute value is a string; the parser turns the *)
(* rel attribute of a link into the list of its whitespace-separated tokens *)

Has(el, name) == name \in DOMAIN el.attrs

\* tokens of a multi-valued attribute: re.findall(r"\S+", value) in current
\* parser releases, re.split(r"\s+", value) in old ones
RelTokens(value, legacy) ==
    IF legacy THEN Split(value, " ") ELSE SelectNonEmpty(Split(value, " "))

ParseElement(el, legacy) ==
    IF el.tag = "link" /\ Has(el, "rel")
    THEN [el EXCEPT !.attrs.rel = RelTokens(el.attrs.rel, legacy)]
    ELSE el

\* BeautifulSoup(html_content, 'html.parser')
Parse(markup, legacy) == [i \in 1..Len(markup) |-> ParseElement(markup[i], legacy)]

SerializeElement(el) ==
    IF el.tag = "link" /\ Has(el, "rel")
    THEN [el EXCEPT !.attrs.rel = JoinWith(el.attrs.rel, " ")]
    ELSE el

\* str(soup)
Serialize(doc) == [i \in 1..Len(doc) |-> SerializeElement(doc[i])]

----------------------------------------------------------------------------
(* CSS objects: the @page declarations held by the text *)

NoRule == "<none>"
COUNTER == "counter(page)"

\* the default_css object of load_css_files
DefaultCss ==
    [size |-> "A4", margin |-> "1cm", top_center |-> "''", bottom_center |-> COUNTER]

\* variant: the footer rule is emitted whatever the flag says
PageCss_AlwaysFooter(page_size, margin, add_page_numbers) ==
    [size |-> page_size, margin |-> margin, top_center |-> NoRule,
     bottom_center |-> COUNTER]

\* CSS(string=page_css)
PageCss(page_size, margin, add_page_numbers) ==
    [size |-> page_size, margin |-> margin, top_center |-> NoRule,
     bottom_center |-> IF add_page_numbers THEN COUNTER ELSE NoRule]

\* the renderer's cascade: the last entry that declares a property decides it
RECURSIVE Cascade(_, _)
Cascade(sheets, prop) ==
    IF sheets = <<>> THEN NoRule
    ELSE IF sheets[Len(sheets)][prop] # NoRule THEN sheets[Len(sheets)][prop]
    ELSE Cascade(SubSeq(sheets, 1, Len(sheets)-1), prop)

----------------------------------------------------------------------------
(* File system *)

Missing == [exists |-> FALSE, readable |-> FALSE, content |-> <<>>]
Unreadable == [exists |-> TRUE, readable |-> FALSE, content |-> <<>>]

\* text of a stylesheet file: the name it was written under and one @page rule
FileCss(name) ==
    [size |-> "A5", margin |-> NoRule, top_center |-> name, bottom_center |-> NoRule]

Readable(name) == [exists |-> TRUE, readable |-> TRUE, content |-> <<FileCss(name)>>]

\* variant: the os.path.exists test is left out
Exists_Always(fsys, path) == TRUE

Exists(fsys, path) == path \in DOMAIN fsys /\ fsys[path].exists

----------------------------------------------------------------------------
(* find_css_files and load_css_files *)

IndexError == [type |-> "IndexError", arg |-> <<>>]

\* the loop of find_css_files from link i on; acc holds css_files, the
\* warnings printed so far and the exception that ended the loop
RECURSIVE FindFrom(_, _, _, _, _)
FindFrom(links, i, dir, fsys, acc) ==
    IF i > Len(links) THEN acc
    ELSE LET link == links[i]
             rel  == IF Has(link, "rel") THEN link.attrs.rel ELSE << <<>> >>
         IN  IF rel = <<>>
             THEN [acc EXCEPT !.raised = <<IndexError>>]
             ELSE IF Lower(rel[1]) = STYLESHEET /\ Has(link, "href")
                     /\ link.attrs.href # <<>>
                     /\ ~StartsWithAny(link.attrs.href, {HTTP, HTTPS})
             THEN LET abs_path == PathJoin(dir, link.attrs.href)
                  IN  IF Exists(fsys, abs_path)
                      THEN FindFrom(links, i+1, dir, fsys,
                               [acc EXCEPT !.css_files = Append(@, abs_path)])
                      ELSE FindFrom(links, i+1, dir, fsys,
                               [acc EXCEPT !.printed = Append(@,
                                   [kind |-> "css_not_found", path |-> abs_path])])
             ELSE FindFrom(links, i+1, dir, fsys, acc)

find_css_files(doc, dir, fsys) ==
    FindFrom(SelectSeq(doc, LAMBDA el : el.tag = "link"), 1, dir, fsys,
             [css_files |-> <<>>, printed |-> <<>>, raised |-> <<>>])

RECURSIVE LoadFrom(_, _, _, _)
LoadFrom(css_files, i, fsys, acc) ==
    IF i > Len(css_files) THEN acc
    ELSE LET css_file == css_files[i]
         IN  IF fsys[css_file].readable
             THEN LoadFrom(css_files, i+1, fsys,
                      [acc EXCEPT !.stylesheets = @ \o fsys[css_file].content,
                                  !.opened = Append(@, css_file)])
             ELSE LoadFrom(css_files, i+1, fsys,
                      [acc EXCEPT !.printed = Append(@,
                                      [kind |-> "css_load_failed", path |-> css_file]),
                                  !.opened = Append(@, css_file)])

\* variant: the default block is put in front of the loaded stylesheets
load_css_files_DefaultFirst(css_files, fsys) ==
    LET loaded == LoadFrom(css_files, 1, fsys,
                      [stylesheets |-> <<>>, printed |-> <<>>, opened |-> <<>>])
    IN  [loaded EXCEPT !.stylesheets = <<DefaultCss>> \o @]

load_css_files(css_files, fsys) ==
    LET loaded == LoadFrom(css_files, 1, fsys,
                      [stylesheets |-> <<>>, printed |-> <<>>, opened |-> <<>>])
    IN  [loaded EXCEPT !.stylesheets = Append(@, DefaultCss)]

----------------------------------------------------------------------------
(* convert_html_to_pdf, step by step *)

\* variant: os.path.abspath is left out
BaseDir_NoAbspath(html_path) == Dirname(html_path)

\* base_dir = os.path.abspath(os.path.dirname(html_path))
BaseDir(html_path) == Abspath(Dirname(html_path))

\* variant: '/' is missing from the prefixes that are left alone
NormalizeImg_NoSlashCheck(el, dir) ==
    IF el.tag = "img" /\ Has(el, "src") /\ el.attrs.src # <<>>
       /\ ~StartsWithAny(el.attrs.src, {HTTP, HTTPS})
    THEN [el EXCEPT !.attrs.src = FILE \o PathJoin(dir, el.attrs.src)]
    ELSE el

\* body of the loop over soup.find_all('img')
NormalizeImg(el, dir) ==
    IF el.tag = "img" /\ Has(el, "src") /\ el.attrs.src # <<>>
       /\ ~StartsWithAny(el.attrs.src, {HTTP, HTTPS, SLASH})
    THEN [el EXCEPT !.attrs.src = FILE \o PathJoin(dir, el.attrs.src)]
    ELSE el

NormalizeImages(doc, dir) ==
    [i \in 1..Len(doc) |-> NormalizeImg(doc[i], dir)]

\* variant: load_css_files is called on an empty list when include_css is
\* false, so the default block is always there
CollectStylesheets_DefaultAlways(include_css, doc, dir, fsys) ==
    LET found == IF include_css THEN find_css_files(doc, dir, fsys)
                 ELSE [css_files |-> <<>>, printed |-> <<>>, raised |-> <<>>]
    IN  IF found.raised # <<>>
        THEN [stylesheets |-> <<>>, printed |-> found.printed,
              opened |-> <<>>, raised |-> found.raised]
        ELSE LET loaded == load_css_files(found.css_files, fsys)
             IN  [stylesheets |-> loaded.stylesheets,
                  printed |-> found.printed \o loaded.printed,
                  opened |-> loaded.opened, raised |-> <<>>]

\* stylesheets = []; if include_css: find_css_files, load_css_files
CollectStylesheets(include_css, doc, dir, fsys) ==
    IF ~include_css
    THEN [stylesheets |-> <<>>, printed |-> <<>>, opened |-> <<>>, raised |-> <<>>]
    ELSE LET found == find_css_files(doc, dir, fsys)
         IN  IF found.raised # <<>>
             THEN [stylesheets |-> <<>>, printed |-> found.printed,
                   opened |-> <<>>, raised |-> found.raised]
             ELSE LET loaded == load_css_files(found.css_files, fsys)
                  IN  [stylesheets |-> loaded.stylesheets,
                       printed |-> found.printed \o loaded.printed,
                       opened |-> loaded.opened, raised |-> <<>>]

\* variant: the page block is inserted at the front
AppendPageCss_First(sheets, a) ==
    <<PageCss(a.size, a.margin, ~a.no_page_numbers)>> \o sheets

\* stylesheets.append(CSS(string=page_css))
AppendPageCss(sheets, a) ==
    Append(sheets, PageCss(a.size, a.margin, ~a.no_page_numbers))

\* variant: a failed read is swallowed and the conversion goes on
ReadHtml_Swallow ==
    /\ pc = "read"
    /\ base_dir' = BaseDir(args.html_file)
    /\ \E ok \in BOOLEAN :
         IF ok
         THEN /\ html_content' = disk_html
              /\ exc' = exc
         ELSE /\ exc' = <<[type |-> "OSError", arg |-> args.html_file]>>
              /\ html_content' = html_content
    /\ pc' = "parse"
    /\ UNCHANGED <<args, disk_html, fs, soup, parsed, stylesheets, opened,
                   renders, written, out>>

ReadHtml ==
    /\ pc = "read"
    /\ base_dir' = BaseDir(args.html_file)
    /\ \E ok \in BOOLEAN :
         IF ok
         THEN /\ html_content' = disk_html
              /\ pc' = "parse"
              /\ exc' = exc
         ELSE /\ exc' = <<[type |-> "OSError", arg |-> args.html_file]>>
              /\ pc' = "except"
              /\ html_content' = html_content
    /\ UNCHANGED <<args, disk_html, fs, soup, parsed, stylesheets, opened,
                   renders, written, out>>

ParseHtml ==
    /\ pc = "parse"
    /\ \E legacy \in BOOLEAN :
         /\ soup' = Parse(html_content, legacy)
         /\ parsed' = soup'
    /\ pc' = "normalize"
    /\ UNCHANGED <<args, base_dir, disk_html, fs, html_content, stylesheets, opened,
                   renders, written, exc, out>>

RewriteImages ==
    /\ pc = "normalize"
    /\ soup' = NormalizeImages(soup, base_dir)
    /\ pc' = "css"
    /\ UNCHANGED <<args, base_dir, disk_html, fs, html_content, parsed, stylesheets,
                   opened, renders, written, exc, out>>

HandleCss ==
    /\ pc = "css"
    /\ LET got == CollectStylesheets(~args.no_css, soup, base_dir, fs)
       IN  /\ stylesheets' = got.stylesheets
           /\ out' = out \o got.printed
           /\ opened' = opened \o got.opened
           /\ exc' = IF got.raised # <<>> THEN got.raised ELSE exc
           /\ pc' = IF got.raised # <<>> THEN "except" ELSE "compose"
    /\ UNCHANGED <<args, base_dir, disk_html, fs, html_content, soup, parsed, renders,
                   written>>

ComposePageRule ==
    /\ pc = "compose"
    /\ stylesheets' = AppendPageCss(stylesheets, args)
    /\ pc' = "render"
    /\ UNCHANGED <<args, base_dir, disk_html, fs, html_content, soup, parsed, opened,
                   renders, written, exc, out>>

\* variant: a failure of write_pdf is swallowed
Render_Swallow ==
    /\ pc = "render"
    /\ renders' = Append(renders, [markup |-> Serialize(soup),
                                   stylesheets |-> stylesheets,
                                   output |-> args.output])
    /\ \E ok \in BOOLEAN :
         IF ok
         THEN /\ written' = written \cup {args.output}
              /\ exc' = exc
         ELSE /\ written' = written
              /\ exc' = <<[type |-> "RenderError", arg |-> args.output]>>
    /\ pc' = "success"
    /\ UNCHANGED <<args, base_dir, disk_html, fs, html_content, soup, parsed,
                   stylesheets, opened, out>>

\* HTML(string=str(soup)).write_pdf(output_pdf, stylesheets=stylesheets)
Render ==
    /\ pc = "render"
    /\ renders' = Append(renders, [markup |-> Serialize(soup),
                                   stylesheets |-> stylesheets,
                                   output |-> args.output])
    /\ \E ok \in BOOLEAN :
         IF ok
         THEN /\ written' = written \cup {args.output}
              /\ pc' = "success"
              /\ exc' = exc
         ELSE /\ written' = written
              /\ pc' = "except"
              /\ exc' = <<[type |-> "RenderError", arg |-> args.output]>>
    /\ UNCHANGED <<args, base_dir, disk_html, fs, html_content, soup, parsed,
                   stylesheets, opened, out>>

(* main: the try block's print and the except clause *)

PrintSuccess ==
    /\ pc = "success"
    /\ out' = Append(out, [kind |-> "success", html |-> args.html_file,
                           output |-> args.output])
    /\ pc' = "returned"
    /\ UNCHANGED <<args, base_dir, disk_html, fs, html_content, soup, parsed,
                   stylesheets, opened, renders, written, exc>>

PrintError ==
    /\ pc = "except"
    /\ out' = Append(out, [kind |-> "error", e |-> exc[1]])
    /\ pc' = "returned"
    /\ UNCHANGED <<args, base_dir, disk_html, fs, html_content, soup, parsed,
                   stylesheets, opened, renders, written, exc>>

Next ==
    \/ ReadHtml
    \/ ParseHtml
    \/ RewriteImages
    \/ HandleCss
    \/ ComposePageRule
    \/ Render
    \/ PrintSuccess
    \/ PrintError

----------------------------------------------------------------------------
(* Inputs *)

El(tag, attrs) == [tag |-> tag, attrs |-> attrs]

HrefA == <<"a">>
HrefB == <<"b">>
LocalHrefs == <<HrefA, HrefB>>
ContentNames == <<"'a.css'", "'b.css'">>

LinkA == El("link", [rel |-> STYLESHEET, href |-> HrefA])
LinkB == El("link", [rel |-> <<"S">> \o Tail(STYLESHEET), href |-> HrefB])
LinkNet == El("link", [rel |-> STYLESHEET, href |-> HTTP \o <<"c">>])
LinkAlt == El("link", [rel |-> <<"x", " ">> \o STYLESHEET, href |-> HrefA])
LinkNoRel == El("link", [href |-> HrefA])
LinkNoHref == El("link", [rel |-> STYLESHEET, href |-> <<>>])
LinkEmptyRel == El("link", [rel |-> <<>>, href |-> HrefA])

ImgRel == El("img", [src |-> <<"p">>, alt |-> <<"p">>])
ImgSub == El("img", [src |-> <<"i", "/", "p">>])
ImgEmpty == El("img", [src |-> <<>>])
ImgNoSrc == El("img", [alt |-> <<"p">>])
ImgAbs == El("img", [src |-> <<"/", "p">>])
ImgHttp == El("img", [src |-> HTTP \o <<"h">>])
ImgHttps == El("img", [src |-> HTTPS \o <<"h">>])
ImgHttpWord == El("img", [src |-> <<"h", "t", "t", "p">>])
ScriptRel == El("script", [src |-> <<"p">>])

LinkElems == {LinkA, LinkB, LinkNet, LinkAlt, LinkNoRel, LinkNoHref,
              LinkEmptyRel, ImgRel}

ImgElems == {ImgRel, ImgSub, ImgEmpty, ImgNoSrc, ImgAbs, ImgHttp, ImgHttps,
             ImgHttpWord, ScriptRel, LinkA, LinkEmptyRel}

Docs(elems) == UNION {[1..n -> elems] : n \in 0..MaxElems}

PathRel == <<"d">>
PathDir == <<"/", "x", "/", "d">>
PathRoot == <<"/", "d">>

FileStates(k) == {Missing, Unreadable, Readable(ContentNames[k])}

FileSystems(dir) ==
    LET n     == Len(LocalHrefs)
        paths == {PathJoin(dir, LocalHrefs[k]) : k \in 1..n}
        kOf(p) == CHOOSE k \in 1..n : PathJoin(dir, LocalHrefs[k]) = p
        all   == UNION {FileStates(k) : k \in 1..n}
    IN  {[p \in paths |-> st[kOf(p)]] :
            st \in {f \in [1..n -> all] : \A k \in 1..n : f[k] \in FileStates(k)}}

PageOptions == {<<"A4", "1cm">>, <<"Letter", "2cm">>}

Start(a, doc, fsys) ==
    /\ pc = "read"
    /\ args = a
    /\ base_dir = <<>>
    /\ disk_html = doc
    /\ fs = fsys
    /\ html_content = <<>>
    /\ soup = <<>>
    /\ parsed = <<>>
    /\ stylesheets = <<>>
    /\ opened = <<>>
    /\ renders = <<>>
    /\ written = {}
    /\ exc = <<>>
    /\ out = <<>>

\* args = parser.parse_args(): any flags, a document of links
Init ==
    \E path \in {PathRel, PathDir}, po \in PageOptions,
       no_css, no_page_numbers \in BOOLEAN, doc \in Docs(LinkElems) :
      \E fsys \in FileSystems(BaseDir(path)) :
        Start([html_file |-> path, output |-> "output.pdf", size |-> po[1],
               margin |-> po[2], no_css |-> no_css,
               no_page_numbers |-> no_page_numbers], doc, fsys)

Spec == Init /\ [][Next]_vars

\* the same program started on documents of images, page options at their
\* command-line defaults
InitImg ==
    \E path \in {PathRel, PathDir, PathRoot}, no_css \in BOOLEAN,
       doc \in Docs(ImgElems) :
      \E fsys \in FileSystems(BaseDir(path)) :
        /\ fsys[PathJoin(BaseDir(path), HrefB)] = Missing
        /\ Start([html_file |-> path, output |-> "output.pdf", size |-> "A4",
                  margin |-> "1cm", no_css |-> no_css,
                  no_page_numbers |-> FALSE], doc, fsys)

SpecImg == InitImg /\ [][Next]_vars

\* the runs that differ in control flow: stylesheets on or off, a link whose
\* file is present, missing or unreadable, a link with an empty rel
InitFlow ==
    \E no_css \in BOOLEAN, doc \in Docs({LinkA, LinkEmptyRel}) :
      \E fsys \in FileSystems(BaseDir(PathDir)) :
        /\ fsys[PathJoin(BaseDir(PathDir), HrefB)] = Missing
        /\ Start([html_file |-> PathDir, output |-> "output.pdf", size |-> "A4",
                  margin |-> "1cm", no_css |-> no_css,
                  no_page_numbers |-> FALSE], doc, fsys)

\* main is one sequential thread: a step that can be taken is taken
FairSpec == InitFlow /\ [][Next]_vars /\ WF_vars(Next)

----------------------------------------------------------------------------
(* Vocabulary of the properties, stated without the operators of the model *)

add_page_numbers == ~args.no_page_numbers
include_css == ~args.no_css

\* the absolute directory of each input path, written out
ExpectedDir ==
    CASE args.html_file = PathRel -> <<"/", "w">>
      [] args.html_file = PathDir -> <<"/", "x">>
      [] args.html_file = PathRoot -> <<"/">>

\* the directory joined with a relative value
Anchored(v) ==
    ExpectedDir \o (IF ExpectedDir[Len(ExpectedDir)] = "/" THEN <<>> ELSE <<"/">>) \o v

ExpectedPageBlock ==
    [size |-> args.size, margin |-> args.margin, top_center |-> NoRule,
     bottom_center |-> IF add_page_numbers THEN "counter(page)" ELSE NoRule]

ExpectedDefaultBlock ==
    [size |-> "A4", margin |-> "1cm", top_center |-> "''",
     bottom_center |-> "counter(page)"]

StylesheetSpellings == {STYLESHEET, <<"S">> \o Tail(STYLESHEET)}

\* a link whose first rel token is "stylesheet" and whose href is a
\* non-empty reference that is not network-qualified
IsLocalStylesheetLink(el) ==
    /\ el.tag = "link"
    /\ Has(el, "rel") /\ el.attrs.rel # <<>> /\ el.attrs.rel[1] \in StylesheetSpellings
    /\ Has(el, "href") /\ el.attrs.href # <<>>
    /\ ~StartsWith(el.attrs.href, HTTP) /\ ~StartsWith(el.attrs.href, HTTPS)

LocalLinks == SelectSeq(parsed, IsLocalStylesheetLink)

FileOf(el) == fs[Anchored(el.attrs.href)]

\* contents of the referenced files that exist and can be read, in document order
ExpectedLoaded ==
    LET ok == SelectSeq(LocalLinks, LAMBDA el : FileOf(el).exists /\ FileOf(el).readable)
    IN  [i \in 1..Len(ok) |-> FileOf(ok[i]).content[1]]

IsFileContent(css) ==
    \E p \in DOMAIN fs : fs[p].content # <<>> /\ fs[p].content[1] = css

Printed(kind) == SelectSeq(out, LAMBDA l : l.kind = kind)

Warned(kind, path) == \E i \in 1..Len(out) : out[i].kind = kind /\ out[i].path = path

AfterCss == pc \in {"compose", "render", "success"} \/ renders # <<>>

AfterNormalize == pc \notin {"read", "parse", "normalize"} /\ parsed # <<>>

----------------------------------------------------------------------------
(* C1: every stylesheet sequence handed to the renderer is non-empty and    *)
(* ends with the page-rule block composed from page_size, margin and        *)
(* add_page_numbers, whatever include_css and the referenced files are.     *)
C1_PageBlockLast ==
    \A i \in 1..Len(renders) :
        LET ss == renders[i].stylesheets
        IN  /\ ss # <<>>
            /\ ss[Len(ss)] = PageCss(args.size, args.margin, add_page_numbers)

C1_Witness ==
    /\ renders # <<>>
    /\ include_css
    /\ Len(renders[1].stylesheets) >= 3
    /\ Printed("css_not_found") # <<>>

C3_LoadedThenDefaultThenPage ==
    \A i \in 1..Len(renders) :
        include_css =>
            renders[i].stylesheets =
                ExpectedLoaded \o <<ExpectedDefaultBlock, ExpectedPageBlock>>

C3_Witness ==
    /\ include_css
    /\ renders # <<>>
    /\ Len(ExpectedLoaded) = 2
    /\ ExpectedLoaded[1] # ExpectedLoaded[2]

(* C4 as written: after the Path Normalizer every img whose original src    *)
(* does not start with http://, https:// or / (an empty src included) has   *)
(* src = file:// + the input's absolute directory joined with the original. *)
C4_Original ==
    AfterNormalize =>
        \A i \in 1..Len(parsed) :
            (/\ parsed[i].tag = "img" /\ Has(parsed[i], "src")
             /\ ~StartsWith(parsed[i].attrs.src, HTTP)
             /\ ~StartsWith(parsed[i].attrs.src, HTTPS)
             /\ ~StartsWith(parsed[i].attrs.src, SLASH))
            => soup[i].attrs.src = FILE \o Anchored(parsed[i].attrs.src)

(* C4 amended: the same for every img whose original src is non-empty; it   *)
(* holds for both values of include_css and in the markup the renderer gets *)
C4_RelativeSrcAnchored ==
    AfterNormalize =>
        \A i \in 1..Len(parsed) :
            (/\ parsed[i].tag = "img" /\ Has(parsed[i], "src")
             /\ parsed[i].attrs.src # <<>>
             /\ ~StartsWith(parsed[i].attrs.src, HTTP)
             /\ ~StartsWith(parsed[i].attrs.src, HTTPS)
             /\ ~StartsWith(parsed[i].attrs.src, SLASH))
            => /\ soup[i].attrs.src = FILE \o Anchored(parsed[i].attrs.src)
               /\ \A r \in 1..Len(renders) :
                      renders[r].markup[i].attrs.src = soup[i].attrs.src

C4_Witness ==
    /\ renders # <<>>
    /\ ~include_css
    /\ args.html_file = PathRel
    /\ \E i \in 1..Len(parsed) :
           /\ parsed[i] = ImgSub
           /\ renders[1].markup[i].attrs.src =
                  <<"f","i","l","e",":","/","/","/","w","/","i","/","p">>

(* C5: the Path Normalizer leaves every img src that starts with http://,   *)
(* https:// or / as parsed, also in the markup given to the renderer, and   *)
(* changes no attribute other than the src of an img.                       *)
C5_OthersUntouched ==
    parsed # <<>> =>
        /\ Len(soup) = Len(parsed)
        /\ \A i \in 1..Len(parsed) :
               /\ soup[i].tag = parsed[i].tag
               /\ DOMAIN soup[i].attrs = DOMAIN parsed[i].attrs
               /\ \A a \in DOMAIN parsed[i].attrs :
                      (parsed[i].tag # "img" \/ a # "src"
                         \/ StartsWith(parsed[i].attrs.src, HTTP)
                         \/ StartsWith(parsed[i].attrs.src, HTTPS)
                         \/ StartsWith(parsed[i].attrs.src, SLASH))
                      => /\ soup[i].attrs[a] = parsed[i].attrs[a]
                         /\ \A r \in 1..Len(renders) :
                                a # "rel" =>
                                  renders[r].markup[i].attrs[a] = parsed[i].attrs[a]

C5_Witness ==
    /\ renders # <<>>
    /\ \E i, j \in 1..Len(parsed) :
           /\ parsed[i] = ImgAbs
           /\ renders[1].markup[i].attrs.src = <<"/", "p">>
           /\ parsed[j] = ImgRel
           /\ soup[j].attrs.src # parsed[j].attrs.src
           /\ soup[j].attrs.alt = <<"p">>

(* C6: with include_css = true a referenced local stylesheet that is        *)
(* missing or unreadable gets a warning naming its path and is left out,    *)
(* the readable ones are all loaded, and the run goes on to the render      *)
(* call: whether the collector raises does not depend on any file's state.  *)
C6_StylesheetProblemsNotFatal ==
    include_css =>
        /\ (AfterCss =>
              \A i \in 1..Len(LocalLinks) :
                  LET f == FileOf(LocalLinks[i])
                      p == Anchored(LocalLinks[i].attrs.href)
                  IN  /\ ~f.exists => Warned("css_not_found", p)
                      /\ (f.exists /\ ~f.readable) => Warned("css_load_failed", p)
                      /\ (f.exists /\ f.readable) =>
                            \E k \in 1..Len(stylesheets) : stylesheets[k] = f.content[1])
        /\ (AfterCss =>
              Len(SelectSeq(stylesheets, IsFileContent)) = Len(ExpectedLoaded))
        /\ (AfterCss =>
              Len(Printed("css_not_found")) + Len(Printed("css_load_failed"))
                + Len(ExpectedLoaded) = Len(LocalLinks))
        /\ (pc = "returned" /\ parsed # <<>> /\ renders = <<>>) =>
              /\ exc # <<>> /\ exc[1].type = "IndexError"
              /\ \E i \in 1..Len(parsed) :
                     parsed[i].tag = "link" /\ Has(parsed[i], "rel")
                        /\ parsed[i].attrs.rel = <<>>
        /\ (pc = "returned" /\ written = {} /\ renders # <<>>) =>
              exc # <<>> /\ exc[1].type = "RenderError"

C6_Witness ==
    /\ include_css
    /\ pc = "returned"
    /\ written # {}
    /\ Len(Printed("css_not_found")) = 1
    /\ Len(Printed("css_load_failed")) = 1
    /\ Len(renders[1].stylesheets) = 2

(* C7: when the input HTML file cannot be opened or read, nothing is        *)
(* parsed, no stylesheet is opened, the renderer is never called and no     *)
(* output is written; the error line carries the read failure and the       *)
(* success line is not printed.                                             *)
C7_ReadFailureAborts ==
    (exc # <<>> /\ exc[1].type = "OSError") =>
        /\ parsed = <<>> /\ soup = <<>>
        /\ opened = <<>>
        /\ renders = <<>> /\ written = {}
        /\ Printed("success") = <<>>
        /\ pc \in {"except", "returned"}
        /\ pc = "returned" =>
              out = <<[kind |-> "error",
                       e |-> [type |-> "OSError", arg |-> args.html_file]]>>

C7_Witness ==
    /\ pc = "returned"
    /\ exc # <<>> /\ exc[1].type = "OSError"
    /\ disk_html # <<>>
    /\ Len(out) = 1 /\ out[1].kind = "error"

(* C8: the composed page-rule block has the bottom-center page-counter      *)
(* footer exactly when add_page_numbers is true, and its size and margin    *)
(* are page_size and margin as given by the caller.                         *)
C8_ComposedBlock ==
    pc \in {"render", "success"} =>
        LET b == stylesheets[Len(stylesheets)]
        IN  /\ b.bottom_center = "counter(page)" <=> add_page_numbers
            /\ b.bottom_center = NoRule <=> ~add_page_numbers
            /\ b.size = args.size
            /\ b.margin = args.margin

C8_Witness ==
    /\ pc = "render"
    /\ ~add_page_numbers
    /\ args.size = "Letter" /\ args.margin = "2cm"
    /\ stylesheets[Len(stylesheets)].bottom_center = NoRule

(* C9: with add_page_numbers = false no bottom-center page-counter footer   *)
(* is in effect in the stylesheet sequence given to the renderer, for       *)
(* either value of include_css.                                             *)
C9_NoFooterInEffect ==
    \A i \in 1..Len(renders) :
        ~add_page_numbers =>
            Cascade(renders[i].stylesheets, "bottom_center") # "counter(page)"

(* what has been printed at each position of main: nothing before the      *)
(* return, one outcome line at the return, matching the exception if any    *)
OneOutcomeLine ==
    LET n_ok  == Len(Printed("success"))
        n_err == Len(Printed("error"))
    IN  /\ pc = "returned" => n_ok + n_err = 1
        /\ pc # "returned" => n_ok + n_err = 0
        /\ n_ok = 1 => exc = <<>> /\ renders # <<>> /\ written = {args.output}
        /\ exc # <<>> => pc \in {"except", "returned"}
        /\ (exc # <<>> /\ pc = "returned") =>
              /\ out[Len(out)].kind = "error"
              /\ out[Len(out)].e = exc[1]
        /\ (exc = <<>> /\ pc = "returned") => out[Len(out)].kind = "success"

(* C10: main prints exactly one of the success line and the error line and  *)
(* then returns; the success line only after a render call that raised      *)
(* nothing; every exception raised reaches main and is the one printed in   *)
(* the error line; every run reaches the return.                            *)
C10_OneOutcomeLineThenReturn == []OneOutcomeLine /\ <>(pc = "returned")

C10_Witness ==
    /\ pc = "returned"
    /\ exc # <<>> /\ exc[1].type = "RenderError"
    /\ Printed("css_not_found") # <<>>
    /\ out[Len(out)].kind = "error"

====
